---- MODULE Spec2Model ----
(***************************************************************************)
(* allofplos/plos_regex.py: the PLOS identifier patterns and the seven     *)
(* functions that apply them.                                              *)
(*                                                                         *)
(* A string is a sequence of one-character strings.  A pattern is the      *)
(* parse of a pattern string: a sequence of top-level alternatives (the    *)
(* parts separated by "|"), each a sequence of items.  Concatenating two   *)
(* pattern strings joins the last alternative of the first to the first    *)
(* alternative of the second, which is what PatConcat does.  The matcher   *)
(* is a backtracking matcher: it yields the end positions of the matches   *)
(* at a position in the order the re module tries them.                    *)
(***************************************************************************)
EXTENDS Integers, Sequences, FiniteSets, TLC

VARIABLES op, arg, result

vars == <<op, arg, result>>

-----------------------------------------------------------------------------
(* Character classes *)

Lower == {"a", "b", "c", "d", "e", "f", "g", "h", "i", "j", "k", "l", "m",
          "n", "o", "p", "q", "r", "s", "t", "u", "v", "w", "x", "y", "z"}

Upper == {"A", "B", "C", "D", "E", "F", "G", "H", "I", "J", "K", "L", "M",
          "N", "O", "P", "Q", "R", "S", "T", "U", "V", "W", "X", "Y", "Z"}

\* [0-9]
Digit09 == {"0", "1", "2", "3", "4", "5", "6", "7", "8", "9"}

\* [\d] in a str pattern: the ASCII digits (the inputs here are ASCII)
DigitD == Digit09

\* [a-zA-Z]
Alpha == Lower \cup Upper

\* [a-zA-Z0-9]
Alnum == Alpha \cup Digit09

-----------------------------------------------------------------------------
(* Pattern items *)

Lit(s) == [t |-> "lit", s |-> s]

\* set{lo,hi}, greedy; hi = -1 is unbounded (set+)
Rep(set, lo, hi) == [t |-> "rep", set |-> set, lo |-> lo, hi |-> hi]

\* ( p )
Grp(p) == [t |-> "grp", p |-> p]

\* ( p )?
Opt(p) == [t |-> "opt", p |-> p]

\* ^
Bol == [t |-> "bol"]

\* $
Eol == [t |-> "eol"]

\* the parse of pattern string p + pattern string q
PatConcat(p, q) ==
    SubSeq(p, 1, Len(p) - 1) \o <<p[Len(p)] \o q[1]>> \o Tail(q)

\* re.escape(s): a pattern that matches s literally
escape(s) == <<<<Lit(s)>>>>

-----------------------------------------------------------------------------
(* The matcher *)

\* how many characters of s after position i are in set, at most hi of them
RECURSIVE Run(_, _, _, _)
Run(set, s, i, hi) ==
    IF hi = 0 \/ i >= Len(s) THEN 0
    ELSE IF s[i + 1] \in set THEN 1 + Run(set, s, i + 1, hi - 1)
    ELSE 0

RECURSIVE MatchAlts(_, _, _, _)
RECURSIVE MatchSeq(_, _, _, _)
RECURSIVE Continue(_, _, _, _)
RECURSIVE MatchItem(_, _, _)

\* the ends of the matches of item it at position i of s, in the order tried
MatchItem(it, s, i) ==
    CASE it.t = "lit" ->
           IF i + Len(it.s) <= Len(s) /\ SubSeq(s, i + 1, i + Len(it.s)) = it.s
           THEN <<i + Len(it.s)>> ELSE <<>>
      [] it.t = "rep" ->
           LET n == Run(it.set, s, i, it.hi)
           IN  IF n < it.lo THEN <<>>
               ELSE [k \in 1..(n - it.lo + 1) |-> i + n - k + 1]
      [] it.t = "grp" -> MatchAlts(it.p, 1, s, i)
      [] it.t = "opt" -> MatchAlts(it.p, 1, s, i) \o <<i>>
      [] it.t = "bol" -> IF i = 0 THEN <<i>> ELSE <<>>
      [] it.t = "eol" ->
           IF i = Len(s) \/ (i = Len(s) - 1 /\ s[Len(s)] = "\n")
           THEN <<i>> ELSE <<>>

\* the items of alternative a from the idx-th on, tried after each end in ends
Continue(a, idx, s, ends) ==
    IF ends = <<>> THEN <<>>
    ELSE MatchSeq(a, idx, s, Head(ends)) \o Continue(a, idx, s, Tail(ends))

MatchSeq(a, idx, s, i) ==
    IF idx > Len(a) THEN <<i>>
    ELSE Continue(a, idx + 1, s, MatchItem(a[idx], s, i))

\* the alternatives of p from the k-th on, left to right
MatchAlts(p, k, s, i) ==
    IF k > Len(p) THEN <<>>
    ELSE MatchSeq(p[k], 1, s, i) \o MatchAlts(p, k + 1, s, i)

NoMatch == <<>>

\* Pattern.match(s): the match at position 0, as <<start, end>>
match(p, s) ==
    LET ends == MatchAlts(p, 1, s, 0)
    IN  IF ends = <<>> THEN NoMatch ELSE <<0, Head(ends)>>

\* Pattern.search(s) from position pos on: the leftmost match
RECURSIVE search_from(_, _, _)
search_from(p, s, pos) ==
    IF pos > Len(s) THEN NoMatch
    ELSE LET ends == MatchAlts(p, 1, s, pos)
         IN  IF ends = <<>> THEN search_from(p, s, pos + 1)
             ELSE <<pos, Head(ends)>>

search(p, s) == search_from(p, s, 0)

\* Pattern.findall(s) of a pattern without capture groups: the matched
\* substrings, left to right, each search starting where the last match ended
RECURSIVE findall_from(_, _, _)
findall_from(p, s, pos) ==
    LET m == search_from(p, s, pos)
    IN  IF m = NoMatch THEN <<>>
        ELSE <<SubSeq(s, m[1] + 1, m[2])>>
             \o findall_from(p, s, IF m[2] > m[1] THEN m[2] ELSE m[2] + 1)

findall(p, s) == findall_from(p, s, 0)

\* bool(m)
bool(m) == m # NoMatch

-----------------------------------------------------------------------------
(* String literals of the source *)

\* "10.1371/"
s_doi_prefix ==
    <<"1", "0", ".", "1", "3", "7", "1", "/">>

\* "journal.p"
s_journal_p ==
    <<"j", "o", "u", "r", "n", "a", "l", ".", "p">>

\* "."
s_dot ==
    <<".">>

\* "-"
s_dash ==
    <<"-">>

\* "annotation/"
s_annotation ==
    <<"a", "n", "n", "o", "t", "a", "t", "i", "o", "n", "/">>

\* "currents."
s_currents ==
    <<"c", "u", "r", "r", "e", "n", "t", "s", ".">>

\* "currents.RRN"
s_currents_RRN ==
    <<"c", "u", "r", "r", "e", "n", "t", "s", ".", "R", "R", "N">>

\* "plos.correction."
s_plos_correction ==
    <<"p", "l", "o", "s", ".", "c", "o", "r", "r", "e", "c", "t", "i", "o", "n", ".">>

\* ".xml"
s_xml ==
    <<".", "x", "m", "l">>

\* "/"
s_slash ==
    <<"/">>

\* "article"
s_article ==
    <<"a", "r", "t", "i", "c", "l", "e">>

\* "peerReview"
s_peerReview ==
    <<"p", "e", "e", "r", "R", "e", "v", "i", "e", "w">>

\* "&type="
s_type ==
    <<"&", "t", "y", "p", "e", "=">>

\* "manuscript"
s_manuscript ==
    <<"m", "a", "n", "u", "s", "c", "r", "i", "p", "t">>

\* "supplementary"
s_supplementary ==
    <<"s", "u", "p", "p", "l", "e", "m", "e", "n", "t", "a", "r", "y">>

\* "https://journals.plos.org/plosone/"
BASE_URL ==
    <<"h", "t", "t", "p", "s", ":", "/", "/", "j", "o", "u", "r", "n", "a", "l", "s", ".", "p", "l", "o", "s", ".", "o", "r", "g", "/", "p", "l", "o", "s", "o", "n", "e", "/">>

\* "article/file?id=10.1371/"
s_file_id ==
    <<"a", "r", "t", "i", "c", "l", "e", "/", "f", "i", "l", "e", "?", "i", "d", "=", "1", "0", ".", "1", "3", "7", "1", "/">>

\* "https://journals.plos.org/"
s_journals_host ==
    <<"h", "t", "t", "p", "s", ":", "/", "/", "j", "o", "u", "r", "n", "a", "l", "s", ".", "p", "l", "o", "s", ".", "o", "r", "g", "/">>

\* "?id=10.1371/"
s_id ==
    <<"?", "i", "d", "=", "1", "0", ".", "1", "3", "7", "1", "/">>

\* "10.1371/journal.p"
s_doi_journal_p ==
    <<"1", "0", ".", "1", "3", "7", "1", "/", "j", "o", "u", "r", "n", "a", "l", ".", "p">>

\* "10.1371/annotation/"
s_doi_annotation ==
    <<"1", "0", ".", "1", "3", "7", "1", "/", "a", "n", "n", "o", "t", "a", "t", "i", "o", "n", "/">>
-----------------------------------------------------------------------------
(* The pattern fragments and the compiled patterns *)

\* re.compile(p)
compile(p) == p

\* variant: the journal code in lower case only, journal\.p[a-z]{3}\.[\d]{7}
journal_items_lowercase ==
    <<Lit(s_journal_p), Rep(Lower, 3, 3), Lit(s_dot), Rep(DigitD, 7, 7)>>

\* journal\.p[a-zA-Z]{3}\.[\d]{7}
journal_items ==
    <<Lit(s_journal_p), Rep(Alpha, 3, 3), Lit(s_dot), Rep(DigitD, 7, 7)>>

\* [a-zA-Z0-9]{8}-[a-zA-Z0-9]{4}-[a-zA-Z0-9]{4}-[a-zA-Z0-9]{4}-[a-zA-Z0-9]{12}
uuid_items ==
    <<Rep(Alnum, 8, 8), Lit(s_dash), Rep(Alnum, 4, 4), Lit(s_dash),
      Rep(Alnum, 4, 4), Lit(s_dash), Rep(Alnum, 4, 4), Lit(s_dash),
      Rep(Alnum, 12, 12)>>

\* ^10\.1371/
regex_match_prefix == <<<<Bol, Lit(s_doi_prefix)>>>>

\* variant: both forms end-anchored, ((journal...$)|(annotation/...$))
regex_body_match_end_anchored ==
    <<<<Grp(<< <<Grp(<<journal_items \o <<Eol>>>>)>>,
               <<Grp(<<<<Lit(s_annotation)>> \o uuid_items \o <<Eol>>>>)>> >>)>>>>

\* ((journal...)|(annotation/...$))
regex_body_match ==
    <<<<Grp(<< <<Grp(<<journal_items>>)>>,
               <<Grp(<<<<Lit(s_annotation)>> \o uuid_items \o <<Eol>>>>)>> >>)>>>>

\* variant: the suffix without its "?", (\.[rs][0-9]{3})
regex_suffix_required ==
    <<<<Grp(<<<<Lit(s_dot), Rep({"r", "s"}, 1, 1), Rep(Digit09, 3, 3)>>>>)>>>>

\* (\.[rs][0-9]{3})?
regex_suffix_match ==
    <<<<Opt(<<<<Lit(s_dot), Rep({"r", "s"}, 1, 1), Rep(Digit09, 3, 3)>>>>)>>>>

\* ((journal...)|(annotation/...))
regex_body_search ==
    <<<<Grp(<< <<Grp(<<journal_items>>)>>,
               <<Grp(<<<<Lit(s_annotation)>> \o uuid_items>>)>> >>)>>>>

\* ((currents\.[a-zA-Z]{2,9}\.[a-zA-Z0-9]{32}$)|(currents\.RRN[\d]{4}$)
\*  |([a-zA-Z0-9]{13}$)|([a-zA-Z0-9]{32}$))
regex_body_currents ==
    <<<<Grp(<< <<Grp(<<<<Lit(s_currents), Rep(Alpha, 2, 9), Lit(s_dot),
                         Rep(Alnum, 32, 32), Eol>>>>)>>,
               <<Grp(<<<<Lit(s_currents_RRN), Rep(DigitD, 4, 4), Eol>>>>)>>,
               <<Grp(<<<<Rep(Alnum, 13, 13), Eol>>>>)>>,
               <<Grp(<<<<Rep(Alnum, 32, 32), Eol>>>>)>> >>)>>>>

\* ((journal...)|(plos\.correction\....))
regex_file_search ==
    <<<<Grp(<< <<Grp(<<journal_items>>)>>,
               <<Grp(<<<<Lit(s_plos_correction)>> \o uuid_items>>)>> >>)>>>>

full_doi_regex_match ==
    compile(PatConcat(PatConcat(regex_match_prefix, regex_body_match),
                      regex_suffix_match))

\* variant: the search pattern built on the anchored prefix,
\* ^10\.1371/journal...|^10\.1371/annotation/...
full_doi_regex_search_anchored ==
    compile(<< <<Bol, Lit(s_doi_journal_p), Rep(Alpha, 3, 3), Lit(s_dot),
                 Rep(DigitD, 7, 7)>>,
               <<Bol, Lit(s_doi_annotation)>> \o uuid_items >>)

\* 10\.1371/journal\.p[a-zA-Z]{3}\.[\d]{7}|10\.1371/annotation/...
full_doi_regex_search ==
    compile(<< <<Lit(s_doi_journal_p), Rep(Alpha, 3, 3), Lit(s_dot),
                 Rep(DigitD, 7, 7)>>,
               <<Lit(s_doi_annotation)>> \o uuid_items >>)

\* variant: the Currents pattern without "^"
currents_doi_regex_unanchored ==
    compile(PatConcat(escape(s_doi_prefix), regex_body_currents))

currents_doi_regex ==
    compile(PatConcat(regex_match_prefix, regex_body_currents))

\* variant: the file pattern without the extension
file_regex_match_no_extension == compile(regex_file_search)

file_regex_match == compile(PatConcat(regex_file_search, <<<<Lit(s_xml)>>>>))

\* (article)|(peerReview)
regex_type_match ==
    << <<Grp(<<<<Lit(s_article)>>>>)>>, <<Grp(<<<<Lit(s_peerReview)>>>>)>> >>

\* &type=((manuscript)|(supplementary))
regex_file_suffix ==
    <<<<Lit(s_type), Grp(<< <<Grp(<<<<Lit(s_manuscript)>>>>)>>,
                            <<Grp(<<<<Lit(s_supplementary)>>>>)>> >>)>>>>

external_url_regex_match ==
    compile(PatConcat(PatConcat(PatConcat(PatConcat(
        escape(BASE_URL), escape(s_file_id)),
        regex_body_search), regex_suffix_match), regex_file_suffix))

\* [a-z]+/
regex_journal_path == <<<<Rep(Lower, 1, -1), Lit(s_slash)>>>>

plos_url_regex_match ==
    compile(PatConcat(PatConcat(PatConcat(PatConcat(PatConcat(
        escape(s_journals_host), regex_journal_path),
        regex_type_match), escape(s_id)),
        regex_body_search), regex_suffix_match))

-----------------------------------------------------------------------------
(* The functions *)

validate_doi(doi) == bool(search(full_doi_regex_match, doi))

validate_filename(filename) ==
    IF bool(search(file_regex_match, filename)) THEN TRUE ELSE FALSE

\* variant: search in place of match
validate_file_url_search(url) == bool(search(external_url_regex_match, url))

validate_file_url(url) == bool(match(external_url_regex_match, url))

validate_plos_url(url) == bool(search(plos_url_regex_match, url))

find_valid_dois(doi) == findall(full_doi_regex_search, doi)

Range(xs) == {xs[k] : k \in DOMAIN xs}

\* list(filter(f, xs)): the items x of xs with f(x) true, in order
RECURSIVE filter(_, _)
filter(f, xs) ==
    IF xs = <<>> THEN <<>>
    ELSE (IF f[Head(xs)] THEN <<Head(xs)>> ELSE <<>>) \o filter(f, Tail(xs))

\* variant: the filter without "not"
show_valid_dois(doi_list) ==
    filter([x \in Range(doi_list) |-> validate_doi(x)], doi_list)

show_invalid_dois(doi_list) ==
    filter([x \in Range(doi_list) |-> ~validate_doi(x)], doi_list)

currents_doi_filter(doi_list) ==
    filter([x \in Range(doi_list) |-> ~bool(search(currents_doi_regex, x))],
           doi_list)

-----------------------------------------------------------------------------
(* The inputs the functions are called with *)

\* longest run of characters appended after an identifier
MaxTrail == 2

\* longest list passed to show_invalid_dois and currents_doi_filter
MaxListLen == 2

\* most identifiers in a text passed to find_valid_dois
MaxDois == 2

\* the sequences over set of length at most n
SeqsUpTo(set, n) == UNION {[1..k -> set] : k \in 0..n}

RECURSIVE Flatten(_)
Flatten(xs) == IF xs = <<>> THEN <<>> ELSE Head(xs) \o Flatten(Tail(xs))

in_journal ==
    <<"j", "o", "u", "r", "n", "a", "l", ".">>

in_digits ==
    <<"2", "0", "0", "0", "7", "7", "7", "9", "1">>

JournalCodes ==
    {<<"p", "b", "i", "o">>,
     <<"p", "O", "N", "E">>,
     <<"x", "b", "i", "o">>}

\* "journal." + a journal code + "." + 6 to 8 digits
JournalBodies ==
    {in_journal \o c \o s_dot \o SubSeq(in_digits, 1, n) :
        c \in JournalCodes, n \in 6..8}

in_uuid ==
    <<"1", "2", "3", "4", "5", "6", "7", "8", "-", "a", "b", "c", "d", "-", "A", "B", "C", "D", "-", "0", "1", "2", "3", "-", "1", "2", "3", "4", "5", "6", "7", "8", "9", "a", "b", "c">>

Uuids ==
    {<<"1", "2", "3", "4", "5", "6", "7", "8", "-", "a", "b", "c", "d", "-", "A", "B", "C", "D", "-", "0", "1", "2", "3", "-", "1", "2", "3", "4", "5", "6", "7", "8", "9", "a", "b", "c">>,
     <<"1", "2", "3", "4", "5", "6", "7", "8", "-", "a", "b", "c", "d", "-", "A", "B", "C", "D", "-", "0", "1", "2", "3", "-", "1", "2", "3", "4", "5", "6", "7", "8", "9", "a", "b">>,
     <<"1", "2", "3", "4", "5", "6", "7", "8", "_", "a", "b", "c", "d", "-", "A", "B", "C", "D", "-", "0", "1", "2", "3", "-", "1", "2", "3", "4", "5", "6", "7", "8", "9", "a", "b", "c">>}

AnnotationBodies == {s_annotation \o u : u \in Uuids}

CorrectionBodies == {s_plos_correction \o u : u \in Uuids}

DoiHeads ==
    {<<"1", "0", ".", "1", "3", "7", "1", "/">>,
     <<"x", "1", "0", ".", "1", "3", "7", "1", "/">>,
     <<"1", "0", "x", "1", "3", "7", "1", "/">>}

Suffixes ==
    {<<>>,
     <<".", "r", "0", "0", "1">>,
     <<".", "s", "0", "0", "2">>,
     <<".", "t", "0", "0", "1">>}

Trails == SeqsUpTo({" ", "\n", "9"}, MaxTrail)

DoiInputs ==
    {h \o b \o x \o t : h \in DoiHeads, b \in JournalBodies \cup AnnotationBodies,
                        x \in Suffixes, t \in Trails}

in_doi_pbio ==
    <<"1", "0", ".", "1", "3", "7", "1", "/", "j", "o", "u", "r", "n", "a", "l", ".", "p", "b", "i", "o", ".", "2", "0", "0", "0", "7", "7", "7">>

in_doi_pone ==
    <<"1", "0", ".", "1", "3", "7", "1", "/", "j", "o", "u", "r", "n", "a", "l", ".", "p", "o", "n", "e", ".", "0", "0", "0", "0", "0", "0", "1">>

in_doi_annotation ==
    <<"1", "0", ".", "1", "3", "7", "1", "/", "a", "n", "n", "o", "t", "a", "t", "i", "o", "n", "/", "1", "2", "3", "4", "5", "6", "7", "8", "-", "a", "b", "c", "d", "-", "A", "B", "C", "D", "-", "0", "1", "2", "3", "-", "1", "2", "3", "4", "5", "6", "7", "8", "9", "a", "b", "c">>

TextSeps ==
    {<<>>,
     <<"s", "e", "e", " ">>,
     <<" ", "a", "n", "d", " ">>}

TextItems ==
    {<<"1", "0", ".", "1", "3", "7", "1", "/", "j", "o", "u", "r", "n", "a", "l", ".", "p", "b", "i", "o", ".", "2", "0", "0", "0", "7", "7", "7">>,
     <<"1", "0", ".", "1", "3", "7", "1", "/", "j", "o", "u", "r", "n", "a", "l", ".", "p", "o", "n", "e", ".", "0", "0", "0", "0", "0", "0", "1">>,
     <<"1", "0", ".", "1", "3", "7", "1", "/", "a", "n", "n", "o", "t", "a", "t", "i", "o", "n", "/", "1", "2", "3", "4", "5", "6", "7", "8", "-", "a", "b", "c", "d", "-", "A", "B", "C", "D", "-", "0", "1", "2", "3", "-", "1", "2", "3", "4", "5", "6", "7", "8", "9", "a", "b", "c">>,
     <<"1", "0", ".", "1", "3", "7", "1", "/", "j", "o", "u", "r", "n", "a", "l", ".", "p", "b", "i", "o", ".", "2", "0", "0", "0", "7", "7">>,
     <<"1", "0", ".", "1", "3", "7", "1", "/", "j", "o", "u", "r", "n", "a", "l", ".", "p", "b", "i", "o", ".", "2", "0", "0", "0", "7", "7", "7", "9">>}

TextInputs ==
    {Flatten(w) : w \in SeqsUpTo({p \o i : p \in TextSeps, i \in TextItems}, MaxDois)}

FileLeads ==
    {<<>>,
     <<"a", "l", "l", "o", "f", "p", "l", "o", "s", "_", "x", "m", "l", "/">>}

FileExts ==
    {<<".", "x", "m", "l">>,
     <<>>,
     <<"x", "x", "m", "l">>,
     <<".", "x", "m">>}

FileTails ==
    {<<>>,
     <<"x">>}

FileInputs ==
    {l \o b \o e \o t :
        l \in FileLeads,
        b \in JournalBodies \cup CorrectionBodies \cup {s_annotation \o in_uuid},
        e \in FileExts, t \in FileTails}

FileUrlLeads ==
    {<<>>,
     <<" ">>}

FileUrlBases ==
    {<<"h", "t", "t", "p", "s", ":", "/", "/", "j", "o", "u", "r", "n", "a", "l", "s", ".", "p", "l", "o", "s", ".", "o", "r", "g", "/", "p", "l", "o", "s", "o", "n", "e", "/", "a", "r", "t", "i", "c", "l", "e", "/", "f", "i", "l", "e", "?", "i", "d", "=", "1", "0", ".", "1", "3", "7", "1", "/">>,
     <<"h", "t", "t", "p", "s", ":", "/", "/", "j", "o", "u", "r", "n", "a", "l", "s", ".", "p", "l", "o", "s", ".", "o", "r", "g", "/", "p", "l", "o", "s", "b", "i", "o", "/", "a", "r", "t", "i", "c", "l", "e", "/", "f", "i", "l", "e", "?", "i", "d", "=", "1", "0", ".", "1", "3", "7", "1", "/">>}

UrlBodies ==
    {<<"j", "o", "u", "r", "n", "a", "l", ".", "p", "o", "n", "e", ".", "0", "0", "0", "0", "0", "0", "1">>,
     <<"j", "o", "u", "r", "n", "a", "l", ".", "p", "o", "n", "e", ".", "0", "0", "0", "0", "0", "1">>,
     <<"j", "o", "u", "r", "n", "a", "l", ".", "x", "o", "n", "e", ".", "0", "0", "0", "0", "0", "0", "1">>,
     <<"a", "n", "n", "o", "t", "a", "t", "i", "o", "n", "/", "1", "2", "3", "4", "5", "6", "7", "8", "-", "a", "b", "c", "d", "-", "A", "B", "C", "D", "-", "0", "1", "2", "3", "-", "1", "2", "3", "4", "5", "6", "7", "8", "9", "a", "b", "c">>,
     <<"a", "n", "n", "o", "t", "a", "t", "i", "o", "n", "/", "1", "2", "3", "4", "5", "6", "7", "8", "-", "a", "b", "c", "d", "-", "A", "B", "C", "D", "-", "0", "1", "2", "3", "-", "1", "2", "3", "4", "5", "6", "7", "8", "9", "a", "b">>}

FileUrlTypes ==
    {<<>>,
     <<"&", "t", "y", "p", "e", "=", "m", "a", "n", "u", "s", "c", "r", "i", "p", "t">>,
     <<"&", "t", "y", "p", "e", "=", "s", "u", "p", "p", "l", "e", "m", "e", "n", "t", "a", "r", "y">>,
     <<"&", "t", "y", "p", "e", "=", "o", "t", "h", "e", "r">>,
     <<"&", "t", "y", "p", "e", "=", "m", "a", "n", "u", "s", "c", "r", "i", "p", "t", "s">>}

FileUrlInputs ==
    {l \o h \o b \o x \o t :
        l \in FileUrlLeads, h \in FileUrlBases, b \in UrlBodies,
        x \in {<<>>, <<".", "s", "0", "0", "2">>, <<".", "t", "0", "0", "1">>},
        t \in FileUrlTypes}

PlosUrlLeads ==
    {<<>>,
     <<"s", "e", "e", " ">>}

PlosUrlHosts ==
    {<<"h", "t", "t", "p", "s", ":", "/", "/", "j", "o", "u", "r", "n", "a", "l", "s", ".", "p", "l", "o", "s", ".", "o", "r", "g", "/">>,
     <<"h", "t", "t", "p", ":", "/", "/", "j", "o", "u", "r", "n", "a", "l", "s", ".", "p", "l", "o", "s", ".", "o", "r", "g", "/">>,
     <<>>}

PlosUrlJournals ==
    {<<"p", "l", "o", "s", "o", "n", "e", "/">>,
     <<"P", "L", "O", "S", "O", "N", "E", "/">>,
     <<>>}

PlosUrlTypes ==
    {<<"a", "r", "t", "i", "c", "l", "e">>,
     <<"p", "e", "e", "r", "R", "e", "v", "i", "e", "w">>,
     <<"f", "i", "l", "e">>}

PlosUrlIds ==
    {<<"?", "i", "d", "=", "1", "0", ".", "1", "3", "7", "1", "/">>,
     <<>>}

PlosUrlBodies ==
    {<<"j", "o", "u", "r", "n", "a", "l", ".", "p", "o", "n", "e", ".", "0", "0", "0", "0", "0", "0", "1">>,
     <<"j", "o", "u", "r", "n", "a", "l", ".", "p", "o", "n", "e", ".", "0", "0", "0", "0", "0", "1">>,
     <<"a", "n", "n", "o", "t", "a", "t", "i", "o", "n", "/", "1", "2", "3", "4", "5", "6", "7", "8", "-", "a", "b", "c", "d", "-", "A", "B", "C", "D", "-", "0", "1", "2", "3", "-", "1", "2", "3", "4", "5", "6", "7", "8", "9", "a", "b", "c">>,
     <<>>}

PlosUrlInputs ==
    {l \o h \o j \o t \o i \o b \o x :
        l \in PlosUrlLeads, h \in PlosUrlHosts, j \in PlosUrlJournals,
        t \in PlosUrlTypes, i \in PlosUrlIds, b \in PlosUrlBodies,
        x \in {<<>>, <<".", "r", "0", "0", "1">>}}

DoiListItems ==
    {<<"1", "0", ".", "1", "3", "7", "1", "/", "j", "o", "u", "r", "n", "a", "l", ".", "p", "b", "i", "o", ".", "2", "0", "0", "0", "7", "7", "7">>,
     <<"n", "o", "t", "-", "a", "-", "d", "o", "i">>,
     <<"1", "0", ".", "1", "3", "7", "1", "/", "j", "o", "u", "r", "n", "a", "l", ".", "p", "b", "i", "o", ".", "2", "0", "0", "0", "7", "7", "7", " ">>,
     <<"1", "0", ".", "1", "3", "7", "1", "/", "a", "n", "n", "o", "t", "a", "t", "i", "o", "n", "/", "1", "2", "3", "4", "5", "6", "7", "8", "-", "a", "b", "c", "d", "-", "A", "B", "C", "D", "-", "0", "1", "2", "3", "-", "1", "2", "3", "4", "5", "6", "7", "8", "9", "a", "b", "c", ".", "r", "0", "0", "1">>,
     <<"1", "0", ".", "1", "3", "7", "1", "/", "j", "o", "u", "r", "n", "a", "l", ".", "x", "b", "i", "o", ".", "2", "0", "0", "0", "7", "7", "7">>}

CurrentsListItems ==
    {<<"1", "0", ".", "1", "3", "7", "1", "/", "c", "u", "r", "r", "e", "n", "t", "s", ".", "R", "R", "N", "1", "2", "3", "4">>,
     <<"x", "1", "0", ".", "1", "3", "7", "1", "/", "c", "u", "r", "r", "e", "n", "t", "s", ".", "R", "R", "N", "1", "2", "3", "4">>,
     <<"1", "0", ".", "1", "3", "7", "1", "/", "c", "u", "r", "r", "e", "n", "t", "s", ".", "R", "R", "N", "1", "2", "3", "4", "\n">>,
     <<"1", "0", ".", "1", "3", "7", "1", "/", "c", "u", "r", "r", "e", "n", "t", "s", ".", "R", "R", "N", "1", "2", "3", "4", " ">>,
     <<"1", "0", ".", "1", "3", "7", "1", "/", "c", "u", "r", "r", "e", "n", "t", "s", ".", "R", "R", "N", "1", "2", "3", "4", "5">>,
     <<"1", "0", ".", "1", "3", "7", "1", "/", "c", "u", "r", "r", "e", "n", "t", "s", ".", "m", "d", ".", "0", "1", "2", "3", "4", "5", "6", "7", "8", "9", "a", "b", "c", "d", "e", "f", "A", "B", "C", "D", "E", "F", "0", "1", "2", "3", "4", "5", "6", "7", "8", "9">>,
     <<"1", "0", ".", "1", "3", "7", "1", "/", "c", "u", "r", "r", "e", "n", "t", "s", ".", "a", ".", "0", "1", "2", "3", "4", "5", "6", "7", "8", "9", "a", "b", "c", "d", "e", "f", "A", "B", "C", "D", "E", "F", "0", "1", "2", "3", "4", "5", "6", "7", "8", "9">>,
     <<"1", "0", ".", "1", "3", "7", "1", "/", "0", "1", "2", "3", "4", "5", "6", "7", "8", "9", "a", "b", "c">>,
     <<"1", "0", ".", "1", "3", "7", "1", "/", "0", "1", "2", "3", "4", "5", "6", "7", "8", "9", "a", "b", "c", "d">>,
     <<"1", "0", ".", "1", "3", "7", "1", "/", "0", "1", "2", "3", "4", "5", "6", "7", "8", "9", "a", "b", "c", "d", "e", "f", "A", "B", "C", "D", "E", "F", "0", "1", "2", "3", "4", "5", "6", "7", "8", "9">>,
     <<"1", "0", ".", "1", "3", "7", "1", "/", "j", "o", "u", "r", "n", "a", "l", ".", "p", "b", "i", "o", ".", "2", "0", "0", "0", "7", "7", "7">>}

DoiListInputs == SeqsUpTo(DoiListItems, MaxListLen)

CurrentsListInputs == SeqsUpTo(CurrentsListItems, MaxListLen)

-----------------------------------------------------------------------------
(* One call of one function: op is the function called, arg its argument,  *)
(* result what it returned.                                                *)

Init ==
    /\ op = "idle"
    /\ arg = <<>>
    /\ result = <<>>

Call_validate_doi ==
    /\ op = "idle"
    /\ \E doi \in DoiInputs :
         /\ arg' = doi
         /\ result' = validate_doi(doi)
    /\ op' = "validate_doi"

Call_validate_filename ==
    /\ op = "idle"
    /\ \E filename \in FileInputs :
         /\ arg' = filename
         /\ result' = validate_filename(filename)
    /\ op' = "validate_filename"

Call_validate_file_url ==
    /\ op = "idle"
    /\ \E url \in FileUrlInputs :
         /\ arg' = url
         /\ result' = validate_file_url(url)
    /\ op' = "validate_file_url"

Call_validate_plos_url ==
    /\ op = "idle"
    /\ \E url \in PlosUrlInputs :
         /\ arg' = url
         /\ result' = validate_plos_url(url)
    /\ op' = "validate_plos_url"

Call_find_valid_dois ==
    /\ op = "idle"
    /\ \E doi \in TextInputs :
         /\ arg' = doi
         /\ result' = find_valid_dois(doi)
    /\ op' = "find_valid_dois"

Call_show_invalid_dois ==
    /\ op = "idle"
    /\ \E doi_list \in DoiListInputs :
         /\ arg' = doi_list
         /\ result' = show_invalid_dois(doi_list)
    /\ op' = "show_invalid_dois"

Call_currents_doi_filter ==
    /\ op = "idle"
    /\ \E doi_list \in CurrentsListInputs :
         /\ arg' = doi_list
         /\ result' = currents_doi_filter(doi_list)
    /\ op' = "currents_doi_filter"

Next ==
    \/ Call_validate_doi
    \/ Call_validate_filename
    \/ Call_validate_file_url
    \/ Call_validate_plos_url
    \/ Call_find_valid_dois
    \/ Call_show_invalid_dois
    \/ Call_currents_doi_filter

Spec == Init /\ [][Next]_vars

-----------------------------------------------------------------------------
(* The identifier shapes, stated character by character *)

\* w occurs in s right after position i
HasAt(s, i, w) == i + Len(w) <= Len(s) /\ \A k \in 1..Len(w) : s[i + k] = w[k]

\* the n characters of s after position i are all in set
AllAt(s, i, n, set) == i + n <= Len(s) /\ \A k \in 1..n : s[i + k] \in set

IsPrefixOf(p, s) == Len(p) <= Len(s) /\ \A k \in 1..Len(p) : s[k] = p[k]

\* "journal." + a letter of first + 3 letters + "." + 7 digits  (20 characters)
JournalFormAt(s, i, first) ==
    /\ HasAt(s, i, in_journal)
    /\ AllAt(s, i + 8, 1, first)
    /\ AllAt(s, i + 9, 3, Alpha)
    /\ HasAt(s, i + 12, <<".">>)
    /\ AllAt(s, i + 13, 7, Digit09)

\* the 8-4-4-4-12 token  (36 characters)
UuidAt(s, i) ==
    /\ AllAt(s, i, 8, Alnum)
    /\ HasAt(s, i + 8, <<"-">>)
    /\ AllAt(s, i + 9, 4, Alnum)
    /\ HasAt(s, i + 13, <<"-">>)
    /\ AllAt(s, i + 14, 4, Alnum)
    /\ HasAt(s, i + 18, <<"-">>)
    /\ AllAt(s, i + 19, 4, Alnum)
    /\ HasAt(s, i + 23, <<"-">>)
    /\ AllAt(s, i + 24, 12, Alnum)

\* "annotation/" + token  (47 characters)
AnnotationFormAt(s, i) == HasAt(s, i, s_annotation) /\ UuidAt(s, i + 11)

\* "plos.correction." + token  (52 characters)
CorrectionFormAt(s, i) == HasAt(s, i, s_plos_correction) /\ UuidAt(s, i + 16)

\* ".r" or ".s" + 3 digits  (5 characters)
SuffixAt(s, i) ==
    HasAt(s, i, <<".">>) /\ AllAt(s, i + 1, 1, {"r", "s"}) /\ AllAt(s, i + 2, 3, Digit09)

\* where an article body that starts after position i ends
ArticleBodyEnds(s, i, first) ==
    {e \in {i + 20} : JournalFormAt(s, i, first)}
        \cup {e \in {i + 47} : AnnotationFormAt(s, i)}

\* where a body ends, with and without a suffix after it
WithOptSuffix(s, ends) == ends \cup {e + 5 : e \in {x \in ends : SuffixAt(s, x)}}

\* the first letter of the journal code in the article body
P == {"p"}

\* s is "10.1371/" + article body + optional suffix and nothing else
IsWholeDoi(s, first) ==
    /\ HasAt(s, 0, s_doi_prefix)
    /\ Len(s) \in WithOptSuffix(s, ArticleBodyEnds(s, 8, first))

\* s begins with "10.1371/" + article body
BeginsWithDoi(s, first) ==
    HasAt(s, 0, s_doi_prefix) /\ ArticleBodyEnds(s, 8, first) # {}

-----------------------------------------------------------------------------
(* C1 *)

\* C1: validate_doi returns True only when the whole input is a valid DOI
\* (prefix + article body + optional suffix, nothing after it), and it
\* accepts '10.1371/journal.pbio.2000777'.
C1_WholeStringOnly ==
    op = "validate_doi" =>
        /\ result => IsWholeDoi(arg, P)
        /\ arg = in_doi_pbio => result

(* C2 *)

\* the complete website URL shape starts after position i of s
PlosUrlShapeAt(s, i) ==
    /\ HasAt(s, i, s_journals_host)
    /\ \E n \in 1..Len(s) :
         /\ AllAt(s, i + 26, n, Lower)
         /\ HasAt(s, i + 26 + n, <<"/">>)
         /\ \E t \in {s_article, s_peerReview} :
              /\ HasAt(s, i + 27 + n, t \o s_id)
              /\ ArticleBodyEnds(s, i + 27 + n + Len(t) + 12, P) # {}

\* C2: validate_plos_url returns True only if the URL contains the complete
\* shape: host + lowercase journal + "/" + article|peerReview + "?id=10.1371/"
\* + article body.
C2_CompleteShapeOnly ==
    (op = "validate_plos_url" /\ result) =>
        \E i \in 0..Len(arg) : PlosUrlShapeAt(arg, i)

(* C3 *)

C4_DocumentedGrammarAccepted ==
    (op = "validate_doi" /\ IsWholeDoi(arg, Alpha)) => result

\* C4, amended: validate_doi accepts "10.1371/journal." + "p" + 3 letters +
\* "." + 7 digits + optional suffix, and "10.1371/annotation/" + token with
\* no suffix.
C4_CodeGrammarAccepted ==
    (op = "validate_doi" /\ HasAt(arg, 0, s_doi_prefix)) =>
        /\ (JournalFormAt(arg, 8, P) /\ Len(arg) \in WithOptSuffix(arg, {28}))
             => result
        /\ (AnnotationFormAt(arg, 8) /\ Len(arg) = 55) => result

C4_Witness ==
    /\ op = "validate_doi"
    /\ HasAt(arg, 0, s_doi_prefix)
    /\ JournalFormAt(arg, 8, P)
    /\ arg[18] = "O"
    /\ SuffixAt(arg, 28)
    /\ Len(arg) = 33
    /\ result

(* C5 *)

\* where a file body that starts after position i ends
FileBodyEndsStated(s, i) ==
    ArticleBodyEnds(s, i, P) \cup {e \in {i + 52} : CorrectionFormAt(s, i)}

FileBodyEnds(s, i) ==
    {e \in {i + 20} : JournalFormAt(s, i, P)}
        \cup {e \in {i + 52} : CorrectionFormAt(s, i)}

\* C5 as stated: validate_filename is True exactly when the string contains
\* an article body (journal or annotation form) or a plos.correction body,
\* immediately followed by ".xml".
C5_ArticleOrCorrectionBody ==
    op = "validate_filename" =>
        (result <=> \E i \in 0..Len(arg) :
                        \E e \in FileBodyEndsStated(arg, i) : HasAt(arg, e, s_xml))

\* C5, amended: the file body is the journal form (code "p" + 3 letters) or
\* the plos.correction form; the annotation form is not a file body.
C5_JournalOrCorrectionBody ==
    op = "validate_filename" =>
        (result <=> \E i \in 0..Len(arg) :
                        \E e \in FileBodyEnds(arg, i) : HasAt(arg, e, s_xml))

C5_Witness ==
    /\ op = "validate_filename"
    /\ arg = <<"a", "l", "l", "o", "f", "p", "l", "o", "s", "_", "x", "m", "l", "/", "j", "o", "u", "r", "n", "a", "l", ".", "p", "b", "i", "o", ".", "2", "0", "0", "0", "7", "7", "7", ".", "x", "m", "l">>
    /\ result

(* C6 *)

\* C6: validate_file_url is True exactly when the URL begins with the file
\* URL prefix + article body + optional suffix + "&type=manuscript" or
\* "&type=supplementary".
C6_FileUrlAnchoredShape ==
    op = "validate_file_url" =>
        (result <=>
            /\ HasAt(arg, 0, BASE_URL \o s_file_id)
            /\ \E e \in WithOptSuffix(arg, ArticleBodyEnds(arg, 58, P)) :
                 \/ HasAt(arg, e, s_type \o s_manuscript)
                 \/ HasAt(arg, e, s_type \o s_supplementary))

C6_Witness ==
    /\ op = "validate_file_url"
    /\ arg = <<"h", "t", "t", "p", "s", ":", "/", "/", "j", "o", "u", "r", "n", "a", "l", "s", ".", "p", "l", "o", "s", ".", "o", "r", "g", "/", "p", "l", "o", "s", "o", "n", "e", "/", "a", "r", "t", "i", "c", "l", "e", "/", "f", "i", "l", "e", "?", "i", "d", "=", "1", "0", ".", "1", "3", "7", "1", "/", "j", "o", "u", "r", "n", "a", "l", ".", "p", "o", "n", "e", ".", "0", "0", "0", "0", "0", "0", "1", ".", "s", "0", "0", "2", "&", "t", "y", "p", "e", "=", "s", "u", "p", "p", "l", "e", "m", "e", "n", "t", "a", "r", "y">>
    /\ result

(* C7 *)

\* where a Currents body that starts after position i ends
CurrentsBodyEnds(s, i) ==
    {i + 9 + n + 1 + 32 : n \in {m \in 2..9 :
        /\ HasAt(s, i, s_currents)
        /\ AllAt(s, i + 9, m, Alpha)
        /\ HasAt(s, i + 9 + m, <<".">>)
        /\ AllAt(s, i + 9 + m + 1, 32, Alnum)}}
    \cup {e \in {i + 16} : HasAt(s, i, s_currents_RRN) /\ AllAt(s, i + 12, 4, Digit09)}
    \cup {e \in {i + 13} : AllAt(s, i, 13, Alnum)}
    \cup {e \in {i + 32} : AllAt(s, i, 32, Alnum)}

\* x contains "10.1371/" + Currents body somewhere
ContainsCurrentsDoi(x) ==
    \E i \in 0..Len(x) : HasAt(x, i, s_doi_prefix) /\ CurrentsBodyEnds(x, i + 8) # {}

\* x is "10.1371/" + Currents body, with at most one final newline after it
IsWholeCurrentsDoi(x) ==
    /\ HasAt(x, 0, s_doi_prefix)
    /\ \E e \in CurrentsBodyEnds(x, 8) :
         e = Len(x) \/ (e = Len(x) - 1 /\ x[Len(x)] = "\n")

KeepNotContaining(x) == ~ContainsCurrentsDoi(x)

KeepNotWhole(x) == ~IsWholeCurrentsDoi(x)

\* C7 as stated: currents_doi_filter keeps, in order, the items in which an
\* unanchored search finds no Currents DOI; an item that contains one
\* anywhere is dropped.
C7_DropsItemsContainingCurrentsDoi ==
    op = "currents_doi_filter" => result = SelectSeq(arg, KeepNotContaining)

\* C7, amended: currents_doi_filter drops exactly the items that are, from
\* their first character to their end (or to one final newline), "10.1371/"
\* + Currents body; items with leading or trailing text are kept.
C7_DropsItemsThatAreCurrentsDois ==
    op = "currents_doi_filter" => result = SelectSeq(arg, KeepNotWhole)

C7_Witness ==
    /\ op = "currents_doi_filter"
    /\ arg = <<<<"1", "0", ".", "1", "3", "7", "1", "/", "c", "u", "r", "r", "e", "n", "t", "s", ".", "R", "R", "N", "1", "2", "3", "4">>,
                <<"x", "1", "0", ".", "1", "3", "7", "1", "/", "c", "u", "r", "r", "e", "n", "t", "s", ".", "R", "R", "N", "1", "2", "3", "4">>>>
    /\ result = <<arg[2]>>

(* C8 *)

\* the occurrences of "10.1371/" + article body in s from position pos on,
\* left to right, each starting no earlier than the end of the one before
RECURSIVE OccurrencesFrom(_, _)
OccurrencesFrom(s, pos) ==
    LET starts == {i \in pos..Len(s) :
                      HasAt(s, i, s_doi_prefix) /\ ArticleBodyEnds(s, i + 8, P) # {}}
    IN  IF starts = {} THEN <<>>
        ELSE LET i == CHOOSE x \in starts : \A y \in starts : x <= y
                 e == CHOOSE x \in ArticleBodyEnds(s, i + 8, P) : TRUE
             IN  <<SubSeq(s, i + 1, e)>> \o OccurrencesFrom(s, e)

in_text_two_dois ==
    <<"s", "e", "e", " ", "1", "0", ".", "1", "3", "7", "1", "/", "j", "o", "u", "r", "n", "a", "l", ".", "p", "b", "i", "o", ".", "2", "0", "0", "0", "7", "7", "7", " ", "a", "n", "d", " ", "1", "0", ".", "1", "3", "7", "1", "/", "j", "o", "u", "r", "n", "a", "l", ".", "p", "o", "n", "e", ".", "0", "0", "0", "0", "0", "0", "1">>

\* C8: find_valid_dois returns all non-overlapping occurrences of "10.1371/"
\* + article body, whole matched substrings, in order of occurrence; for the
\* text with two journal DOIs it returns those two.
C8_AllOccurrencesInOrder ==
    op = "find_valid_dois" =>
        /\ result = OccurrencesFrom(arg, 0)
        /\ arg = in_text_two_dois => result = <<in_doi_pbio, in_doi_pone>>

C8_Witness ==
    /\ op = "find_valid_dois"
    /\ arg = in_text_two_dois
    /\ result = <<in_doi_pbio, in_doi_pone>>

(* C9 *)

\* xs is ys with some items left out
RECURSIVE IsSubseq(_, _)
IsSubseq(xs, ys) ==
    IF xs = <<>> THEN TRUE
    ELSE IF ys = <<>> THEN FALSE
    ELSE IF Head(xs) = Head(ys) THEN IsSubseq(Tail(xs), Tail(ys))
    ELSE IsSubseq(xs, Tail(ys))

\* C9: show_invalid_dois returns exactly the items validate_doi rejects, in
\* order and with duplicates, and applying it again changes nothing.
C9_ExactlyTheRejectedItems ==
    op = "show_invalid_dois" =>
        /\ \A k \in DOMAIN result : ~validate_doi(result[k])
        /\ IsSubseq(result, arg)
        /\ Len(result) = Cardinality({k \in DOMAIN arg : ~validate_doi(arg[k])})
        /\ show_invalid_dois(result) = result

C9_Witness ==
    /\ op = "show_invalid_dois"
    /\ arg = <<in_doi_pbio, <<"n", "o", "t", "-", "a", "-", "d", "o", "i">>>>
    /\ result = <<arg[2]>>

(* C10 *)

\* what C10 says of a string s, found being find_valid_dois(s) and valid
\* being validate_doi(s)
SearchAgreesWithMatch(s, found, valid) ==
    /\ \A k \in DOMAIN found : validate_doi(found[k])
    /\ valid => (found # <<>> /\ IsPrefixOf(found[1], s))

\* C10: every element of find_valid_dois(s) is accepted by validate_doi, and
\* when validate_doi(s) is True find_valid_dois(s) is non-empty and its first
\* element is a prefix of s.
C10_SearchAndMatchAgree ==
    /\ op = "find_valid_dois" =>
         SearchAgreesWithMatch(arg, result, validate_doi(arg))
    /\ op = "validate_doi" =>
         SearchAgreesWithMatch(arg, find_valid_dois(arg), result)

C10_Witness ==
    /\ op = "validate_doi"
    /\ result
    /\ find_valid_dois(arg) # <<>>
    /\ Len(find_valid_dois(arg)[1]) < Len(arg)
    /\ AnnotationFormAt(arg, 8)

====
